---- MODULE Spec2Model ----
(***************************************************************************)
(* timesheettool: the record store (src/records/db.rs), the interval       *)
(* reconciliation of Records::complete_last_record (src/records.rs), the   *)
(* commands that drive it (src/bin/tst/commands.rs), the two parsers of    *)
(* src/parse and the aggregation of src/print.rs and of the overtime       *)
(* report.                                                                 *)
(*                                                                         *)
(* Instants are the integers 0..MaxTime.  An Option<T> is the set of its   *)
(* values: None is {} and Some(x) is {x}, so Option::filter is a set       *)
(* comprehension.  The records table is a sequence of rows whose position  *)
(* is the autoincremented primary key.  A task is identified by its name   *)
(* (tasks.name is unique, so upsert_task maps a name to one task id).      *)
(***************************************************************************)
EXTENDS Integers, Sequences, FiniteSets, TLC

\* Instants range over 0..MaxTime.
MaxTime == 2

\* A call or command is issued on a table of at most MaxRecords rows.
MaxRecords == 2

Times == 0..MaxTime

Tasks == {"abc", "def"}

None == {}

Some(x) == {x}

OptionTimes == {None} \cup {Some(t) : t \in Times}

VARIABLES
    records,      \* the records table: records[i] is the row with id i
    op,           \* the last call: its name and arguments
    last_record,  \* what get_most_recent_record returned to the last call
    changes,      \* the Vec<Record> complete_last_record returned to the last call
    fcall         \* the last call of a function outside the record store, with its result

vars == <<records, op, last_record, changes, fcall>>

\* db::Record, joined with its task's name.
Row(id, task, started_at, ended_at) ==
    [id |-> id, task |-> task, started_at |-> started_at, ended_at |-> ended_at]

\* The value of a Some(_).
Unwrap(opt) == CHOOSE x \in opt : TRUE

Call(cmd, name, end_date, start_date, allow_overlap) ==
    [cmd |-> cmd, name |-> name, end_date |-> end_date, start_date |-> start_date,
     allow_overlap |-> allow_overlap]

----------------------------------------------------------------------------
(* src/records/db.rs *)

\* The rows a query "started_at < before ORDER BY started_at DESC LIMIT 1" can
\* return: None when no row qualifies, otherwise a row with the greatest
\* started_at.  SQL leaves the order of rows with equal keys unspecified, so
\* every such row is a possible answer.
get_most_recent_record(recs, before) ==
    LET found == {i \in DOMAIN recs : recs[i].started_at < before}
        first == {i \in found : \A j \in found : recs[j].started_at <= recs[i].started_at}
    IN  IF found = {} THEN {None} ELSE {Some(recs[i]) : i \in first}

\* Mutant: the update without its "WHERE id = record_id".
set_record_end_timestamp_unfiltered(recs, record_id, timestamp) ==
    [i \in DOMAIN recs |-> [recs[i] EXCEPT !.ended_at = Some(timestamp)]]

set_record_end_timestamp(recs, record_id, timestamp) ==
    [i \in DOMAIN recs |->
        IF recs[i].id = record_id
        THEN [recs[i] EXCEPT !.ended_at = Some(timestamp)]
        ELSE recs[i]]

\* Mutant: the insert replaces the newest row instead of adding one.
insert_record_overwrite(recs, task, start_date, end_date) ==
    IF recs = <<>>
    THEN <<Row(1, task, start_date, end_date)>>
    ELSE [recs EXCEPT ![Len(recs)] = Row(Len(recs), task, start_date, end_date)]

insert_record(recs, task, start_date, end_date) ==
    Append(recs, Row(Len(recs) + 1, task, start_date, end_date))

----------------------------------------------------------------------------
(* src/records.rs *)

\* Mutant: the filter keeps the ends at or after end_date.
closing_step_inverted_filter(st, record, end_date) ==
    IF {date \in record.ended_at : date >= end_date} # None
    THEN st
    ELSE [records |-> set_record_end_timestamp(st.records, record.id, end_date),
          changes |-> Append(st.changes,
                             Row(record.id, record.task, record.started_at, Some(end_date)))]

\* Mutant: the filter keeps only the ends strictly before end_date.
closing_step_strict(st, record, end_date) ==
    IF {date \in record.ended_at : date < end_date} # None
    THEN st
    ELSE [records |-> set_record_end_timestamp(st.records, record.id, end_date),
          changes |-> Append(st.changes,
                             Row(record.id, record.task, record.started_at, Some(end_date)))]

\* Mutant: the record is closed whatever its end.
closing_step_always(st, record, end_date) ==
    [records |-> set_record_end_timestamp(st.records, record.id, end_date),
     changes |-> Append(st.changes,
                        Row(record.id, record.task, record.started_at, Some(end_date)))]

\* Mutant: the filter keeps only an end equal to end_date.
closing_step_equal_filter(st, record, end_date) ==
    IF {date \in record.ended_at : date = end_date} # None
    THEN st
    ELSE [records |-> set_record_end_timestamp(st.records, record.id, end_date),
          changes |-> Append(st.changes,
                             Row(record.id, record.task, record.started_at, Some(end_date)))]

\* match record.ended_at.filter(|date| date <= &end_date) { Some(_) => {}, None => ... }
closing_step(st, record, end_date) ==
    IF {date \in record.ended_at : date <= end_date} # None
    THEN st
    ELSE [records |-> set_record_end_timestamp(st.records, record.id, end_date),
          changes |-> Append(st.changes,
                             Row(record.id, record.task, record.started_at, Some(end_date)))]

\* Mutant: the reopened record is inserted without the original end.
reopening_step_open_tail(st, record, start_date) ==
    IF start_date = None
    THEN st
    ELSE IF {date \in record.ended_at : date <= Unwrap(start_date)} # None
    THEN st
    ELSE [records |-> insert_record(st.records, record.task, Unwrap(start_date), None),
          changes |-> Append(st.changes,
                             Row(Len(st.records) + 1, record.task, Unwrap(start_date),
                                 None))]

\* Mutant: the filter reads the end the closing step has just stored.
reopening_step_stored_end(st, record, start_date) ==
    IF start_date = None
    THEN st
    ELSE IF {date \in st.records[record.id].ended_at : date <= Unwrap(start_date)} # None
    THEN st
    ELSE [records |-> insert_record(st.records, record.task, Unwrap(start_date),
                                    record.ended_at),
          changes |-> Append(st.changes,
                             Row(Len(st.records) + 1, record.task, Unwrap(start_date),
                                 record.ended_at))]

\* Mutant: the filter keeps only the ends strictly before start_date.
reopening_step_strict(st, record, start_date) ==
    IF start_date = None
    THEN st
    ELSE IF {date \in record.ended_at : date < Unwrap(start_date)} # None
    THEN st
    ELSE [records |-> insert_record(st.records, record.task, Unwrap(start_date),
                                    record.ended_at),
          changes |-> Append(st.changes,
                             Row(Len(st.records) + 1, record.task, Unwrap(start_date),
                                 record.ended_at))]

\* if let Some(start_date) = start_date { match record.ended_at.filter(...) ... }
reopening_step(st, record, start_date) ==
    IF start_date = None
    THEN st
    ELSE IF {date \in record.ended_at : date <= Unwrap(start_date)} # None
    THEN st
    ELSE [records |-> insert_record(st.records, record.task, Unwrap(start_date),
                                    record.ended_at),
          changes |-> Append(st.changes,
                             Row(Len(st.records) + 1, record.task, Unwrap(start_date),
                                 record.ended_at))]

\* Mutant: the closing step is skipped.
complete_last_record_no_closing(recs, last, end_date, start_date) ==
    LET st == [records |-> recs, changes |-> <<>>]
    IN  IF last = None
        THEN st
        ELSE reopening_step(st, Unwrap(last), start_date)

\* Mutant: the reopening step runs before the closing step.
complete_last_record_reopens_first(recs, last, end_date, start_date) ==
    LET st == [records |-> recs, changes |-> <<>>]
    IN  IF last = None
        THEN st
        ELSE closing_step(reopening_step(st, Unwrap(last), start_date),
                          Unwrap(last), end_date)

\* Records::complete_last_record, given the answer `last` of get_most_recent_record:
\* the table afterwards and the returned changes.
complete_last_record(recs, last, end_date, start_date) ==
    LET st == [records |-> recs, changes |-> <<>>]
    IN  IF last = None
        THEN st
        ELSE reopening_step(closing_step(st, Unwrap(last), end_date),
                            Unwrap(last), start_date)

\* Records::add_record
add_record(recs, task_name, start_date, end_date) ==
    insert_record(recs, task_name, start_date, end_date)

----------------------------------------------------------------------------
(* The operations *)

\* No call is running: the last call's locals and result have been dropped.
Idle == Call("idle", "", None, None, FALSE)

\* No function outside the record store has been called.
NoCall == [fn |-> "none"]

Init ==
    /\ records = <<>>
    /\ op = Idle
    /\ last_record = None
    /\ changes = <<>>
    /\ fcall = NoCall

\* records.add_record(task_name, start_date, end_date)
AddRecord(task_name, start_date, end_date) ==
    /\ Len(records) < MaxRecords
    /\ records' = add_record(records, task_name, start_date, end_date)
    /\ op' = Call("add_record", task_name, end_date, Some(start_date), FALSE)
    /\ last_record' = None
    /\ changes' = <<>>
    /\ UNCHANGED fcall

\* records.complete_last_record(end_date, start_date)
CompleteLastRecord(end_date, start_date) ==
    \E last \in get_most_recent_record(records, end_date) :
        LET done == complete_last_record(records, last, end_date, start_date)
        IN  /\ Len(records) <= MaxRecords
            /\ records' = done.records
            /\ op' = Call("complete_last_record", "", Some(end_date), start_date, FALSE)
            /\ last_record' = last
            /\ changes' = done.changes
            /\ UNCHANGED fcall

\* Mutant: the new record is added without its end.
Go_adds_open_record(name, start_date, end_date, allow_overlap) ==
    \E last \in IF allow_overlap THEN {None}
                ELSE get_most_recent_record(records, start_date) :
        LET updated == IF allow_overlap
                       THEN [records |-> records, changes |-> <<>>]
                       ELSE complete_last_record(records, last, start_date, end_date)
        IN  /\ Len(records) < MaxRecords
            /\ records' = add_record(updated.records, name, start_date, None)
            /\ op' = Call("go", name, end_date, Some(start_date), allow_overlap)
            /\ last_record' = last
            /\ changes' = updated.changes

\* commands::go with --start start_date, --end end_date (the clock's reading
\* when --start is absent)
Go(name, start_date, end_date, allow_overlap) ==
    \E last \in IF allow_overlap THEN {None}
                ELSE get_most_recent_record(records, start_date) :
        LET updated == IF allow_overlap
                       THEN [records |-> records, changes |-> <<>>]
                       ELSE complete_last_record(records, last, start_date, end_date)
        IN  /\ Len(records) < MaxRecords
            /\ records' = add_record(updated.records, name, start_date, end_date)
            /\ op' = Call("go", name, end_date, Some(start_date), allow_overlap)
            /\ last_record' = last
            /\ changes' = updated.changes

\* commands::stop with --end end_date (the clock's reading when it is absent)
Stop(end_date) ==
    \E last \in get_most_recent_record(records, end_date) :
        LET updated == complete_last_record(records, last, end_date, None)
        IN  /\ Len(records) <= MaxRecords
            /\ records' = updated.records
            /\ op' = Call("stop", "", Some(end_date), None, FALSE)
            /\ last_record' = last
            /\ changes' = updated.changes

\* The caller drops the result (the command's process exits); the table stays.
Return ==
    /\ op # Idle
    /\ op' = Idle
    /\ last_record' = None
    /\ changes' = <<>>
    /\ UNCHANGED <<records, fcall>>

DoAddRecord == \E t \in Tasks, s \in Times, e \in OptionTimes : AddRecord(t, s, e)

DoCompleteLastRecord == \E e \in Times, s \in OptionTimes : CompleteLastRecord(e, s)

DoGo ==
    \E t \in Tasks, s \in Times, e \in OptionTimes, o \in BOOLEAN :
        Go(t, s, e, o) /\ UNCHANGED fcall

DoStop == \E e \in Times : Stop(e) /\ UNCHANGED fcall

\* The library as its tests drive it, one call after the other.
Next ==
    \/ op = Idle /\ DoAddRecord
    \/ op = Idle /\ DoCompleteLastRecord
    \/ Return

Spec == Init /\ [][Next]_vars

\* The command line: one go or stop per process, on a store that starts empty.
NextCli ==
    \/ op = Idle /\ DoGo
    \/ op = Idle /\ DoStop
    \/ Return

SpecCli == Init /\ [][NextCli]_vars

\* A store whose only record is open, as add_record(task, start, None) leaves it.
InitOpen ==
    \E t \in Tasks, s \in Times :
        /\ records = add_record(<<>>, t, s, None)
        /\ op = Call("add_record", t, None, Some(s), FALSE)
        /\ last_record = None
        /\ changes = <<>>
        /\ fcall = NoCall

\* Calls made in a row by one caller, which still holds the previous result.
NextIdem == DoCompleteLastRecord

SpecIdem == InitOpen /\ [][NextIdem]_vars

TypeOK ==
    /\ records \in Seq([id : 1..(MaxRecords + 1), task : Tasks, started_at : Times,
                        ended_at : OptionTimes])
    /\ Len(records) <= MaxRecords + 1
    /\ \A i \in DOMAIN records : records[i].id = i

----------------------------------------------------------------------------
(* Vocabulary of the properties *)

\* r is a row of recs that started strictly before `before`, and no row of recs
\* that started strictly before `before` started later than r.
IsLatestBefore(recs, r, before) ==
    /\ r.id \in DOMAIN recs
    /\ recs[r.id] = r
    /\ r.started_at < before
    /\ \A j \in DOMAIN recs :
           recs[j].started_at < before => recs[j].started_at <= r.started_at

NoneBefore(recs, before) == \A i \in DOMAIN recs : recs[i].started_at >= before

\* opt is absent or strictly after t.
AbsentOrAfter(opt, t) == opt = None \/ Unwrap(opt) > t

\* opt is present and at or before t.
PresentAtOrBefore(opt, t) == opt # None /\ Unwrap(opt) <= t

IsCompleteLastRecord(call) == call.cmd = "complete_last_record"

----------------------------------------------------------------------------
\* C1: a complete_last_record(end_time, _) call works on the most recently
\* started record with started_at < end_time (on none only when there is none);
\* when that record is open or ends strictly after end_time, its stored ended_at
\* becomes exactly end_time and the first returned change carries its id, its
\* task, its original started_at and ended_at = end_time.
C1_Step ==
    IsCompleteLastRecord(op') =>
        LET end_time == Unwrap(op'.end_date)
        IN  /\ (last_record' = None) <=> NoneBefore(records, end_time)
            /\ last_record' # None =>
                 LET prev == Unwrap(last_record')
                 IN  /\ IsLatestBefore(records, prev, end_time)
                     /\ AbsentOrAfter(prev.ended_at, end_time) =>
                          /\ records'[prev.id].ended_at = Some(end_time)
                          /\ Len(changes') >= 1
                          /\ changes'[1] = Row(prev.id, prev.task, prev.started_at,
                                               Some(end_time))

C1_ClosingSetsEndTime == [][C1_Step]_vars

\* A closed record that ran past end_time was truncated to end_time.
C1_Witness ==
    /\ IsCompleteLastRecord(op)
    /\ last_record # None
    /\ Unwrap(last_record).ended_at # None
    /\ Unwrap(Unwrap(last_record).ended_at) > Unwrap(op.end_date)
    /\ records[Unwrap(last_record).id].ended_at = op.end_date
    /\ Len(changes) >= 1
    /\ changes[1].ended_at = op.end_date

----------------------------------------------------------------------------
\* C2: split.  When the previous record [p, q] has p < end_time <= start_time
\* and q is absent or q > start_time, complete_last_record(end_time,
\* Some(start_time)) returns exactly two changes: the previous record ending at
\* end_time with its start p, then a newly inserted record of the same task that
\* starts at start_time and ends at the original q (absent when q was absent);
\* the table holds both.
C2_Step ==
    (IsCompleteLastRecord(op') /\ op'.start_date # None /\ last_record' # None) =>
        LET end_time == Unwrap(op'.end_date)
            start_time == Unwrap(op'.start_date)
            prev == Unwrap(last_record')
            tail == Row(Len(records) + 1, prev.task, start_time, prev.ended_at)
        IN  (/\ prev.started_at < end_time
             /\ end_time <= start_time
             /\ AbsentOrAfter(prev.ended_at, start_time)) =>
                /\ changes' = <<Row(prev.id, prev.task, prev.started_at, Some(end_time)),
                                tail>>
                /\ Len(records') = Len(records) + 1
                /\ records'[Len(records) + 1] = tail
                /\ records'[prev.id] = [prev EXCEPT !.ended_at = Some(end_time)]

C2_SplitKeepsOriginalEnd == [][C2_Step]_vars

\* A closed record was split and the second half kept the original end.
C2_Witness ==
    /\ IsCompleteLastRecord(op)
    /\ op.start_date # None
    /\ Unwrap(op.end_date) <= Unwrap(op.start_date)
    /\ last_record # None
    /\ Unwrap(last_record).ended_at # None
    /\ Len(changes) = 2
    /\ changes[2].started_at = Unwrap(op.start_date)
    /\ changes[2].ended_at = Unwrap(last_record).ended_at
    /\ records[changes[2].id] = changes[2]

----------------------------------------------------------------------------
\* C3: no-op inputs.  complete_last_record returns no change and leaves the
\* table as it was when no record starts strictly before end_time, or when the
\* most recently started such record ended at or before end_time and start_time
\* is absent or that end is also at or before start_time.
C3_Step ==
    IsCompleteLastRecord(op') =>
        LET end_time == Unwrap(op'.end_date)
            fully_past ==
                /\ last_record' # None
                /\ PresentAtOrBefore(Unwrap(last_record').ended_at, end_time)
                /\ \/ op'.start_date = None
                   \/ PresentAtOrBefore(Unwrap(last_record').ended_at,
                                        Unwrap(op'.start_date))
        IN  (NoneBefore(records, end_time) \/ fully_past) =>
                /\ changes' = <<>>
                /\ records' = records

C3_NoOpInputs == [][C3_Step]_vars

\* A call with a start_time found a fully past record and changed nothing.
C3_Witness ==
    /\ IsCompleteLastRecord(op)
    /\ op.start_date # None
    /\ last_record # None
    /\ PresentAtOrBefore(Unwrap(last_record).ended_at, Unwrap(op.end_date))
    /\ PresentAtOrBefore(Unwrap(last_record).ended_at, Unwrap(op.start_date))
    /\ changes = <<>>
    /\ records[Unwrap(last_record).id] = Unwrap(last_record)

----------------------------------------------------------------------------
\* C4: complete_last_record(end_time, _) deletes no record and changes at most
\* one record that existed before the call, which is the most recently started
\* record with started_at < end_time, and of that one only ended_at; every
\* record with started_at >= end_time is left as it was.
C4_Step ==
    IsCompleteLastRecord(op') =>
        LET end_time == Unwrap(op'.end_date)
        IN  /\ Len(records') >= Len(records)
            /\ \A i \in DOMAIN records :
                   /\ records'[i] # records[i] =>
                        /\ last_record' # None
                        /\ Unwrap(last_record').id = i
                        /\ IsLatestBefore(records, records[i], end_time)
                        /\ records'[i] = [records[i] EXCEPT
                                             !.ended_at = records'[i].ended_at]
                   /\ records[i].started_at >= end_time => records'[i] = records[i]

C4_OnlyLastRecordModified == [][C4_Step]_vars

\* The previous record was closed while a record that started at or after
\* end_time is still open and an older record is still there.
C4_Witness ==
    /\ IsCompleteLastRecord(op)
    /\ Len(changes) >= 1
    /\ changes[1].ended_at = op.end_date
    /\ \E i \in DOMAIN records :
           /\ records[i].started_at >= Unwrap(op.end_date)
           /\ records[i].ended_at = None
           /\ i # changes[1].id
           /\ i <= Len(records) - (Len(changes) - 1)

----------------------------------------------------------------------------
(* Vocabulary of the go / stop properties *)

\* Records a and b share time: each starts before the other ends, an absent end
\* lying after every instant (the range test of db::query_records).
Overlaps(a, b) ==
    /\ b.ended_at = None \/ a.started_at < Unwrap(b.ended_at)
    /\ a.ended_at = None \/ b.started_at < Unwrap(a.ended_at)

NonOverlapping(recs) ==
    \A i, j \in DOMAIN recs : i # j => ~Overlaps(recs[i], recs[j])

IdsOf(recs) == {recs[i].id : i \in DOMAIN recs}

IsGoNoOverlap(call) == call.cmd = "go" /\ ~call.allow_overlap

----------------------------------------------------------------------------
\* C5, as stated: if the stored records are pairwise non-overlapping, then after
\* a go without --allow-overlap all stored records are still pairwise
\* non-overlapping.
C5_Original_Step ==
    (IsGoNoOverlap(op') /\ NonOverlapping(records)) => NonOverlapping(records')

----------------------------------------------------------------------------
\* C6: after any sequence of go and stop commands from an empty store, every
\* stored record whose ended_at is present has ended_at >= started_at.
C6_EndNotBeforeStart ==
    \A i \in DOMAIN records :
        records[i].ended_at # None => Unwrap(records[i].ended_at) >= records[i].started_at

----------------------------------------------------------------------------
\* C7: when go runs without --allow-overlap, every stored open record that
\* overlaps the new record is ended with the new record's start time.
C7_Step ==
    IsGoNoOverlap(op') =>
        LET new == records'[Len(records')]
        IN  \A i \in DOMAIN records :
                (records[i].ended_at = None /\ Overlaps(records[i], new)) =>
                    records'[i].ended_at = Some(new.started_at)

C7_GoEndsOverlappingOpenRecord == [][C7_Step]_vars

----------------------------------------------------------------------------
\* C8: after stop at T, no record that started before T is still open.
C8_StopLeavesNoOpenRecord ==
    op.cmd = "stop" =>
        \A i \in DOMAIN records :
            records[i].started_at < Unwrap(op.end_date) => records[i].ended_at # None

----------------------------------------------------------------------------
\* C9: idempotence of closing.  On a store whose only record is open and started
\* before a, complete_last_record(a, None) returns exactly one change, the record
\* ending at a, and stores that end; a following complete_last_record(b, None)
\* with b >= a returns no change and leaves the record ending at a.
C9_Step ==
    /\ (/\ IsCompleteLastRecord(op')
        /\ op'.start_date = None
        /\ Len(records) = 1
        /\ records[1].ended_at = None
        /\ records[1].started_at < Unwrap(op'.end_date)) =>
           /\ changes' = <<[records[1] EXCEPT !.ended_at = op'.end_date]>>
           /\ records' = <<[records[1] EXCEPT !.ended_at = op'.end_date]>>
    /\ (/\ IsCompleteLastRecord(op)
        /\ op.start_date = None
        /\ Len(records) = 1
        /\ last_record # None
        /\ Unwrap(last_record).ended_at = None
        /\ IsCompleteLastRecord(op')
        /\ op'.start_date = None
        /\ Unwrap(op'.end_date) >= Unwrap(op.end_date)) =>
           /\ changes' = <<>>
           /\ records' = records
           /\ records'[1].ended_at = op.end_date

C9_ClosingIsIdempotent == [][C9_Step]_vars

\* The second call: the only record, closed before at a <= b, was found and left alone.
C9_Witness ==
    /\ IsCompleteLastRecord(op)
    /\ op.start_date = None
    /\ Len(records) = 1
    /\ last_record = Some(records[1])
    /\ PresentAtOrBefore(records[1].ended_at, Unwrap(op.end_date))
    /\ changes = <<>>

----------------------------------------------------------------------------
\* C10: go and stop delete no record: every id stored before a command is stored
\* after it and ids stay distinct; stop inserts no record; go inserts exactly one
\* record, and exactly one more when its reconciliation reports a reopened
\* (split-off) record, which needs an end time and no --allow-overlap.
C10_Step ==
    LET inserted == Len(records') - Len(records)
        split == \E k \in DOMAIN changes' : changes'[k].id \notin IdsOf(records)
    IN  /\ IdsOf(records) \subseteq IdsOf(records')
        /\ Cardinality(IdsOf(records')) = Len(records')
        /\ op'.cmd = "stop" => inserted = 0
        /\ op'.cmd = "go" =>
             /\ inserted = IF split THEN 2 ELSE 1
             /\ split => (~op'.allow_overlap /\ op'.end_date # None)

C10_RecordsNeverDeleted == [][C10_Step]_vars

\* go split the only stored record: two records were inserted at once.
C10_Witness ==
    /\ op.cmd = "go"
    /\ Len(changes) = 2
    /\ Len(records) = 3
    /\ changes[2].id = 2
    /\ records[3].task = op.name

----------------------------------------------------------------------------
(* chrono: NaiveDate, Weekday, TimeZone *)
(* A NaiveDate is its number of days since 1970-01-01, an instant           *)
(* (DateTime<Utc>) of the parsers its number of seconds since               *)
(* 1970-01-01T00:00:00Z.                                                    *)

SecondsPerDay == 86400

\* NaiveDate::MIN is -262143-01-01 and NaiveDate::MAX is +262142-12-31.
MinYear == 0 - 262143

MaxYear == 262142

is_leap_year(y) == y % 4 = 0 /\ (y % 100 # 0 \/ y % 400 = 0)

days_in_month(y, m) ==
    IF m = 2 THEN (IF is_leap_year(y) THEN 29 ELSE 28)
    ELSE IF m \in {4, 6, 9, 11} THEN 30 ELSE 31

\* The day number of the calendar date y-m-d (proleptic Gregorian).
days_from_civil(y, m, d) ==
    LET yy  == IF m <= 2 THEN y - 1 ELSE y
        era == yy \div 400
        yoe == yy - era * 400
        mp  == IF m > 2 THEN m - 3 ELSE m + 9
        doy == (153 * mp + 2) \div 5 + d - 1
        doe == yoe * 365 + yoe \div 4 - yoe \div 100 + doy
    IN  era * 146097 + doe - 719468

\* Datelike::year, month and day of a NaiveDate.
civil_from_days(date) ==
    LET z   == date + 719468
        era == z \div 146097
        doe == z - era * 146097
        yoe == (doe - doe \div 1460 + doe \div 36524 - doe \div 146096) \div 365
        doy == doe - (365 * yoe + yoe \div 4 - yoe \div 100)
        mp  == (5 * doy + 2) \div 153
        d   == doy - (153 * mp + 2) \div 5 + 1
        m   == IF mp < 10 THEN mp + 3 ELSE mp - 9
        y   == yoe + era * 400 + (IF m <= 2 THEN 1 ELSE 0)
    IN  [year |-> y, month |-> m, day |-> d]

MinDate == days_from_civil(MinYear, 1, 1)

MaxDate == days_from_civil(MaxYear, 12, 31)

\* NaiveDate::from_ymd_opt: None unless y-m-d is a date of the calendar.
from_ymd_opt(y, m, d) ==
    IF /\ y \in MinYear..MaxYear
       /\ m \in 1..12
       /\ d >= 1
       /\ d <= days_in_month(y, m)
    THEN Some(days_from_civil(y, m, d))
    ELSE None

\* NaiveDate::pred_opt and succ_opt.
pred_opt(date) == IF date = MinDate THEN None ELSE Some(date - 1)

succ_opt(date) == IF date = MaxDate THEN None ELSE Some(date + 1)

\* NaiveDate::weekday as Weekday::num_days_from_monday: 0 is Monday, 6 is
\* Sunday; 1970-01-01 was a Thursday.
weekday(date) == (date + 3) % 7

\* Weekday::days_since.
days_since(day, other) == (day + 7 - other) % 7

\* A time zone: its offset from UTC in seconds before and from the instant
\* of its one transition in the modelled days.
Utc == [before |-> 0, after |-> 0, at |-> 0]

\* Europe/Berlin: 2024-03-31T01:00:00Z, 02:00 CET becomes 03:00 CEST.
Berlin == [before |-> 3600, after |-> 7200, at |-> 19813 * SecondsPerDay + 3600]

\* Australia/Sydney: 2024-04-06T16:00:00Z, 03:00 AEDT becomes 02:00 AEST.
Sydney == [before |-> 39600, after |-> 36000, at |-> 19819 * SecondsPerDay + 57600]

\* Asia/Beirut: 2024-03-30T22:00:00Z, 00:00 EET becomes 01:00 EEST.
Beirut == [before |-> 7200, after |-> 10800, at |-> 19812 * SecondsPerDay + 79200]

TimeZones == {Utc, Berlin, Sydney, Beirut}

\* The offset of the zone at an instant.
offset_at(tz, instant) == IF instant < tz.at THEN tz.before ELSE tz.after

\* TimeZone::from_local_datetime: the LocalResult as the set of instants whose
\* local time is the given one: {} is LocalResult::None, one instant is
\* Single, two are Ambiguous.
from_local_datetime(tz, local) ==
    {u \in {local - tz.before, local - tz.after} : u + offset_at(tz, u) = local}

\* TimeZone::with_ymd_and_hms.
with_ymd_and_hms(tz, y, m, d, hour, min, sec) ==
    LET date == from_ymd_opt(y, m, d)
    IN  IF date = None \/ hour > 23 \/ min > 59 \/ sec > 59
        THEN {}
        ELSE from_local_datetime(tz, Unwrap(date) * SecondsPerDay
                                     + hour * 3600 + min * 60 + sec)

\* LocalResult::earliest and latest.
earliest(local_result) ==
    {u \in local_result : \A v \in local_result : u <= v}

\* Mutant: the first of the instants is taken.
latest_takes_first(local_result) ==
    {u \in local_result : \A v \in local_result : u <= v}

latest(local_result) ==
    {u \in local_result : \A v \in local_result : u >= v}

----------------------------------------------------------------------------
(* src/parse/dateparse.rs *)

\* The clock's date ("today") ranges over the days FirstDay..FirstDay + MaxDays.
MaxDays == 8

\* 2024-03-30, a Saturday.
FirstDay == days_from_civil(2024, 3, 30)

Todays == FirstDay..(FirstDay + MaxDays)

WeekdayNames ==
    <<"monday", "tuesday", "wednesday", "thursday", "friday", "saturday", "sunday">>

\* The names REGEX accepts in its fourth group.
RelationNames == {"today", "yesterday"} \cup {WeekdayNames[i] : i \in 1..7}

\* <Weekday as FromStr>::from_str on a name of REGEX.
weekday_from_str(name) == CHOOSE w \in 0..6 : WeekdayNames[w + 1] = name

\* A text is what REGEX captures from it: whether it matches at all, the ISO
\* date of groups 1 to 3 or the name of group 4 (kind "iso", "name", or "time"
\* when the date part is absent), and the numbers of groups 5 to 7.
DateText(kind, ymd, name, hour, min, sec) ==
    [kind |-> kind, ymd |-> ymd, name |-> name, hour |-> hour, min |-> min, sec |-> sec]

\* 09:30, 02:30:15 and 24:00.
ClockTexts == {<<9, 30, None>>, <<2, 30, Some(15)>>, <<24, 0, None>>}

IsoTexts == {<<2024, 3, 31>>, <<2024, 2, 30>>, <<2024, 4, 7>>}

NoYmd == <<0, 0, 0>>

Garbage == DateText("garbage", NoYmd, "", 0, 0, None)

DateTexts ==
    {Garbage}
    \cup {DateText("time", NoYmd, "", c[1], c[2], c[3]) : c \in ClockTexts}
    \cup {DateText("name", NoYmd, n, c[1], c[2], c[3]) : n \in RelationNames, c \in ClockTexts}
    \cup {DateText("iso", ymd, "", c[1], c[2], c[3]) : ymd \in IsoTexts, c \in ClockTexts}

\* The weekday is today's weekday minus the one looked for.
find_last_day_swapped(today, day_of_week) ==
    LET current_day == weekday(today)
        n == days_since(day_of_week, current_day)
    IN  IF n = 0 THEN None ELSE Some(today - n)

\* find_last_day: the clock's date is at least six days after NaiveDate::MIN,
\* so the subtraction of Days stays in range.
find_last_day(today, day_of_week) ==
    LET current_day == weekday(today)
        n == days_since(current_day, day_of_week)
    IN  IF n = 0 THEN None ELSE Some(today - n)

\* parse_relative_date of dateparse.rs; relation is group 4 as an Option.
dateparse_parse_relative_date(relation, today) ==
    IF relation = None THEN Some(today)
    ELSE IF Unwrap(relation) = "today" THEN Some(today)
    ELSE IF Unwrap(relation) = "yesterday" THEN pred_opt(today)
    ELSE find_last_day(today, weekday_from_str(Unwrap(relation)))

\* Group 4 of REGEX.
relation_of(date) == IF date.kind = "name" THEN Some(date.name) ELSE None

\* The date parse_date resolves before it attaches the time of day.
resolved_day(date, today) ==
    IF date.kind = "garbage" THEN None
    ELSE dateparse_parse_relative_date(relation_of(date), today)

\* capture_with_default over groups 1 to 3.
ymd_with_default(date, day) ==
    IF date.kind = "iso"
    THEN [year |-> date.ymd[1], month |-> date.ymd[2], day |-> date.ymd[3]]
    ELSE civil_from_days(day)

parse_date(date, timezone, today) ==
    LET day == resolved_day(date, today)
    IN  IF day = None THEN None
        ELSE LET ymd == ymd_with_default(date, Unwrap(day))
                 sec == IF date.sec = None THEN 0 ELSE Unwrap(date.sec)
             IN  latest(with_ymd_and_hms(timezone, ymd.year, ymd.month, ymd.day,
                                         date.hour, date.min, sec))

ParseDate(date, timezone, today) ==
    /\ fcall' = [fn |-> "parse_date", date |-> date, timezone |-> timezone,
                 today |-> today, day |-> resolved_day(date, today),
                 result |-> parse_date(date, timezone, today)]
    /\ UNCHANGED <<records, op, last_record, changes>>

DoParseDate ==
    \E date \in DateTexts, timezone \in TimeZones, today \in Todays :
        ParseDate(date, timezone, today)

NextDate == fcall = NoCall /\ DoParseDate

\* parse_date applied to texts, zones and dates of the clock.
SpecDate == Init /\ [][NextDate]_vars

\* The local date of an instant in a zone.
local_date(tz, instant) == (instant + offset_at(tz, instant)) \div SecondsPerDay

IsWeekdayText(c) ==
    /\ c.fn = "parse_date"
    /\ c.date.kind = "name"
    /\ c.date.name \in {WeekdayNames[i] : i \in 1..7}

\* The days of the week before today that fall on weekday w.
PastWeekOn(today, w) == {d \in (today - 6)..(today - 1) : weekday(d) = w}

\* C12: when parse_date is given a weekday name, the text is rejected if today
\* falls on that weekday; otherwise the day resolved is the one day d with
\* today - 6 <= d <= today - 1 that falls on that weekday, and an instant that
\* is returned lies on that local day.
C12_WeekdayIsLastSuchDay ==
    IsWeekdayText(fcall) =>
        LET w == weekday_from_str(fcall.date.name)
            past == PastWeekOn(fcall.today, w)
        IN  IF weekday(fcall.today) = w
            THEN fcall.day = None /\ fcall.result = None
            ELSE /\ Cardinality(past) = 1
                 /\ fcall.day = past
                 /\ \A u \in fcall.result : {local_date(fcall.timezone, u)} = past

\* A wednesday asked for on Friday 2024-04-05 in Berlin, with a result.
C12_Witness ==
    /\ IsWeekdayText(fcall)
    /\ fcall.date.name = "wednesday"
    /\ fcall.today = days_from_civil(2024, 4, 5)
    /\ fcall.timezone = Berlin
    /\ fcall.day = Some(days_from_civil(2024, 4, 3))
    /\ fcall.result # None

----------------------------------------------------------------------------
(* src/parse/reldateparse.rs *)
(* A call either returns an Option or panics; where the outcome depends on  *)
(* whether the build checks integer overflow, both outcomes are possible.   *)

Returned(value) == [panic |-> FALSE, value |-> value]

Panicked == [panic |-> TRUE, value |-> None]

\* The small COUNTs of a text are 0..MaxCount.
MaxCount == 3

\* 100000000, 613566758 (the least COUNT whose count * 7 exceeds u32::MAX) and
\* i32::MAX.  A u32 above i32::MAX is not among the modelled COUNTs.
LargeCounts == {100000000, 613566758, 2147483647}

Counts == (0..MaxCount) \cup LargeCounts

\* The groups 2 to 5 of REGEX.
Units == {"d", "w", "m", "y"}

\* A text is "now", what REGEX captures from it (kind "count": the number of
\* group 1 and the unit), digits that exceed u32::MAX followed by a unit
\* (kind "bigcount"), or a text REGEX does not match.
RelText(kind, count, unit) == [kind |-> kind, count |-> count, unit |-> unit]

RelTexts ==
    {RelText("now", 0, ""), RelText("garbage", 0, "")}
    \cup {RelText("bigcount", 0, u) : u \in Units}
    \cup {RelText("count", n, u) : n \in Counts, u \in Units}

\* u32::saturating_sub.
saturating_sub(a, b) == IF a > b THEN a - b ELSE 0

\* A u32 as two 16-bit limbs.
Limb == 65536

u32_limbs(n) == [hi |-> n \div Limb, lo |-> n % Limb]

\* The u32 product count * 7 modulo 2^32, and whether it overflowed.
mul7_u32(count) ==
    LET l    == u32_limbs(count)
        low  == 7 * l.lo
        high == 7 * l.hi + low \div Limb
    IN  [overflow |-> high >= Limb, hi |-> high % Limb, lo |-> low % Limb]

\* Mutant: the days are added to the date.
checked_sub_days_adds(date, days) ==
    IF days.hi > (date - MinDate) \div Limb THEN None
    ELSE LET n == days.hi * Limb + days.lo
         IN  IF date - n < MinDate THEN None ELSE Some(date + n)

\* NaiveDate::checked_sub_days, the number of days given by its limbs.
checked_sub_days(date, days) ==
    IF days.hi > (date - MinDate) \div Limb THEN None
    ELSE LET n == days.hi * Limb + days.lo
         IN  IF date - n < MinDate THEN None ELSE Some(date - n)

\* NaiveDate::checked_sub_months, for at most i32::MAX months.
checked_sub_months(date, months) ==
    IF months = 0 THEN Some(date)
    ELSE LET c     == civil_from_days(date)
             total == c.year * 12 + c.month - 1 - months
             year  == total \div 12
             month == (total % 12) + 1
             last  == days_in_month(year, month)
             day   == IF c.day > last THEN last ELSE c.day
         IN  from_ymd_opt(year, month, day)

\* Datelike::with_day, with_month and with_year.
with_day(date, day) ==
    LET c == civil_from_days(date) IN from_ymd_opt(c.year, c.month, day)

with_month(date, month) ==
    LET c == civil_from_days(date) IN from_ymd_opt(c.year, month, c.day)

with_year(date, year) ==
    LET c == civil_from_days(date) IN from_ymd_opt(year, c.month, c.day)

start_of_day(timezone, day) ==
    LET c == civil_from_days(day)
    IN  earliest(with_ymd_and_hms(timezone, c.year, c.month, c.day, 0, 0, 0))

\* `today - Days::new(..)` and what follows it: the subtraction panics when
\* checked_sub_days finds no date.
minus_days_then_start(timezone, date, days) ==
    LET start_date == checked_sub_days(date, days)
    IN  IF start_date = None THEN Panicked
        ELSE Returned(start_of_day(timezone, Unwrap(start_date)))

\* The branch of group 3: the start of the week, count weeks back.
weeks_branch(timezone, today, count) ==
    LET day_of_week == weekday(today)
        week_start  == checked_sub_days(today, u32_limbs(day_of_week))
        product     == mul7_u32(count)
        wrapped     == minus_days_then_start(timezone, Unwrap(week_start), product)
    IN  IF week_start = None THEN {Panicked}
        ELSE IF product.overflow THEN {Panicked, wrapped}
        ELSE {wrapped}

\* The branch of group 4: the first day of the month, count months back.
months_branch(timezone, today, count) ==
    LET shifted == checked_sub_months(today, count)
    IN  IF shifted = None THEN Panicked
        ELSE LET start_date == with_day(Unwrap(shifted), 1)
             IN  IF start_date = None THEN Returned(None)
                 ELSE Returned(start_of_day(timezone, Unwrap(start_date)))

\* The branch of group 5: the first of January, count years back.  A count of
\* at most i32::MAX is its own value as i32, and the year minus it is an i32.
years_branch(timezone, today, count) ==
    LET first   == with_day(today, 1)
        january == IF first = None THEN None ELSE with_month(Unwrap(first), 1)
        year    == civil_from_days(today).year - count
        start_date == IF january = None THEN None ELSE with_year(Unwrap(january), year)
    IN  IF start_date = None THEN Returned(None)
        ELSE Returned(start_of_day(timezone, Unwrap(start_date)))

\* The outcomes of parse_relative_date.
parse_relative_date(date, timezone, today) ==
    IF date.kind = "now"
    THEN LET tomorrow == succ_opt(today)
         IN  IF tomorrow = None THEN {Returned(None)}
             ELSE {Returned(start_of_day(timezone, Unwrap(tomorrow)))}
    ELSE IF date.kind # "count" THEN {Returned(None)}
    ELSE LET count == saturating_sub(date.count, 1)
         IN  CASE date.unit = "d" ->
                      {minus_days_then_start(timezone, today, u32_limbs(count))}
               [] date.unit = "w" -> weeks_branch(timezone, today, count)
               [] date.unit = "m" -> {months_branch(timezone, today, count)}
               [] date.unit = "y" -> {years_branch(timezone, today, count)}

ParseRelativeDate(date, timezone, today) ==
    \E result \in parse_relative_date(date, timezone, today) :
        /\ fcall' = [fn |-> "parse_relative_date", date |-> date,
                     timezone |-> timezone, today |-> today, result |-> result]
        /\ UNCHANGED <<records, op, last_record, changes>>

DoParseRelativeDate ==
    \E date \in RelTexts, timezone \in TimeZones, today \in Todays :
        ParseRelativeDate(date, timezone, today)

NextRel == fcall = NoCall /\ DoParseRelativeDate

\* parse_relative_date applied to texts, zones and dates of the clock.
SpecRel == Init /\ [][NextRel]_vars

\* A call of parse_relative_date on a text "COUNT unit".
IsCountOf(c, unit) ==
    /\ c.fn = "parse_relative_date"
    /\ c.date.kind = "count"
    /\ c.date.unit = unit

\* The instants, on the grid of hours around it, whose local time is the
\* midnight that starts the day; the first of them, as an Option.
LocalMidnight(tz, day) ==
    LET local == day * SecondsPerDay
        grid  == {local + k * 3600 : k \in (0 - 14)..14}
    IN  earliest({u \in grid : u + offset_at(tz, u) = local})

\* max(N - 1, 0).
CountBack(n) == IF n >= 1 THEN n - 1 ELSE 0

\* C13: for every COUNT N of a text "N d", parse_relative_date returns the
\* local midnight that starts the day max(N - 1, 0) days before today.
C13_DaysResolveToLocalMidnight ==
    IsCountOf(fcall, "d") =>
        /\ ~fcall.result.panic
        /\ fcall.result.value =
               LocalMidnight(fcall.timezone, fcall.today - CountBack(fcall.date.count))

\* The Monday of the week of a day.
MondayOf(day) == CHOOSE d \in (day - 6)..day : weekday(d) = 0

\* C14: for every COUNT N of a text "N w", parse_relative_date returns a local
\* midnight of a Monday at or before today: the Monday of today's week moved
\* max(N - 1, 0) whole weeks back.
C14_WeeksResolveToMonday ==
    IsCountOf(fcall, "w") =>
        /\ ~fcall.result.panic
        /\ \A u \in fcall.result.value :
               /\ weekday(local_date(fcall.timezone, u)) = 0
               /\ local_date(fcall.timezone, u) <= fcall.today
        /\ fcall.result.value =
               LocalMidnight(fcall.timezone,
                             MondayOf(fcall.today) - 7 * CountBack(fcall.date.count))

\* C20: parse_relative_date never panics on a text "COUNT unit", whatever the
\* size of COUNT.
C20_RelativeDateNeverPanics ==
    (fcall.fn = "parse_relative_date" /\ fcall.date.kind \in {"count", "bigcount"})
        => ~fcall.result.panic

----------------------------------------------------------------------------
(* src/print.rs and src/bin/tst/commands.rs: rounding *)

\* The i64 remainder of Rust: its sign is the sign of the dividend.
rust_rem(a, b) == IF a >= 0 THEN a % b ELSE 0 - ((0 - a) % b)

\* round_to_next, for a unit of at least one second.
round_to_next(value, unit) ==
    LET remainder == rust_rem(value, unit)
    IN  IF remainder = 0 THEN value ELSE value + unit - remainder

\* round_duration: a Duration is its number of whole seconds.
round_duration(duration, rounding_minutes) ==
    round_to_next(duration, rounding_minutes * 60)

\* The rounding units are 1..MaxRounding minutes, the values the multiples of
\* 20 seconds from -20 * MaxTicks to 20 * MaxTicks.
MaxRounding == 3

MaxTicks == 20

RoundedValues == {20 * k : k \in (0 - MaxTicks)..MaxTicks}

RoundToNext(value, rounding_minutes) ==
    /\ fcall' = [fn |-> "round_to_next", value |-> value,
                 unit |-> rounding_minutes * 60,
                 result |-> round_duration(value, rounding_minutes)]
    /\ UNCHANGED <<records, op, last_record, changes>>

DoRoundToNext ==
    \E value \in RoundedValues, rounding_minutes \in 1..MaxRounding :
        RoundToNext(value, rounding_minutes)

NextRound == fcall = NoCall /\ DoRoundToNext

\* round_to_next applied to durations in seconds and units of whole minutes.
SpecRound == Init /\ [][NextRound]_vars

\* C16: for every value and unit, round_to_next returns the least multiple of
\* the unit that is not below the value.
C16_RoundsToLeastMultipleNotBelow ==
    fcall.fn = "round_to_next" =>
        /\ fcall.result % fcall.unit = 0
        /\ fcall.result >= fcall.value
        /\ fcall.result - fcall.unit < fcall.value

----------------------------------------------------------------------------
(* src/print.rs: print_granularity_daily *)

\* A listing is made of at most MaxList records.
MaxList == 3

\* Project names in the order of String::cmp.
ProjectOrder == <<"alpha", "beta">>

Projects == {ProjectOrder[i] : i \in DOMAIN ProjectOrder}

\* records::Record without its id.
Record(project, task, started_at, ended_at) ==
    [project |-> project, task |-> task, started_at |-> started_at,
     ended_at |-> ended_at]

\* Friday 2024-04-05.
AggDay == days_from_civil(2024, 4, 5)

\* Friday 10:00, Friday 23:00 and Saturday 10:00, UTC.
AggStarts ==
    {AggDay * SecondsPerDay + 36000, AggDay * SecondsPerDay + 82800,
     (AggDay + 1) * SecondsPerDay + 36000}

\* A listed record is open, or lasts 10 or 20 minutes.
AggRecords ==
    {Record(p, "abc", s, e) :
        p \in Projects, s \in AggStarts, e \in {None}} \cup
    {Record(p, "abc", s, Some(s + d)) :
        p \in Projects, s \in AggStarts, d \in {600, 1200}}

\* "now" is Friday 10:30 or Saturday 12:00, UTC.
AggNows == {AggDay * SecondsPerDay + 37800, (AggDay + 1) * SecondsPerDay + 43200}

\* The local zone: Friday 23:00 UTC is Saturday 01:00 there.
AggZones == {Berlin}

\* config.time_round_minutes.
AggRounding == {30}

RecordLists == UNION {[1..n -> AggRecords] : n \in 0..MaxList}

\* Record::duration, in seconds.
duration(record, now) ==
    (IF record.ended_at = None THEN now ELSE Unwrap(record.ended_at))
        - record.started_at

RECURSIVE sum_durations(_, _)
\* The durations of a run of records, added up.
sum_durations(recs, now) ==
    IF recs = <<>> THEN 0
    ELSE duration(Head(recs), now) + sum_durations(Tail(recs), now)

RECURSIVE same_day_run(_, _, _)
\* How many records at the head of the list start on the local date.
same_day_run(recs, tz, date) ==
    IF recs = <<>> \/ local_date(tz, Head(recs).started_at) # date THEN 0
    ELSE 1 + same_day_run(Tail(recs), tz, date)

RECURSIVE project_lines(_, _, _, _, _, _)
\* The lines of one run of records_vec, sorted by project in reverse: one line
\* per project from rank downwards; printing_date is set for the first line.
project_lines(records_vec, now, date, rounding_minutes, rank, printing_date) ==
    IF rank = 0 THEN <<>>
    ELSE LET project == ProjectOrder[rank]
             mine == SelectSeq(records_vec, LAMBDA r : r.project = project)
             line == [date |-> date, printing_date |-> printing_date,
                      duration |-> round_duration(sum_durations(mine, now),
                                                  rounding_minutes),
                      project |-> project,
                      tasks |-> {mine[i].task : i \in DOMAIN mine}]
         IN  IF mine = <<>>
             THEN project_lines(records_vec, now, date, rounding_minutes,
                                rank - 1, printing_date)
             ELSE <<line>> \o project_lines(records_vec, now, date,
                                            rounding_minutes, rank - 1, FALSE)

RECURSIVE print_granularity_daily(_, _, _, _)
\* The lines print_granularity_daily writes under its heading.
print_granularity_daily(recs, now, tz, rounding_minutes) ==
    IF recs = <<>> THEN <<>>
    ELSE LET date == local_date(tz, Head(recs).started_at)
             n == same_day_run(recs, tz, date)
             records_vec == SubSeq(recs, 1, n)
         IN  project_lines(records_vec, now, date, rounding_minutes,
                           Len(ProjectOrder), TRUE)
             \o print_granularity_daily(SubSeq(recs, n + 1, Len(recs)), now, tz,
                                        rounding_minutes)

PrintGranularityDaily(recs, now, tz, rounding_minutes) ==
    /\ fcall' = [fn |-> "print_granularity_daily", records |-> recs, now |-> now,
                 timezone |-> tz, rounding_minutes |-> rounding_minutes,
                 lines |-> print_granularity_daily(recs, now, tz, rounding_minutes)]
    /\ UNCHANGED <<records, op, last_record, changes>>

DoPrintGranularityDaily ==
    \E recs \in RecordLists, now \in AggNows, tz \in AggZones,
       rounding_minutes \in AggRounding :
        PrintGranularityDaily(recs, now, tz, rounding_minutes)

----------------------------------------------------------------------------
(* src/bin/tst/commands.rs: overtime and OvertimeIter *)
(* Hours are kept as whole seconds: the f64 hours of the code are these      *)
(* seconds divided by 3600.                                                  *)

\* Records::all_records: every record of the store, ordered by its start.
all_records_results ==
    {recs \in RecordLists :
        \A i, j \in DOMAIN recs : i < j => recs[i].started_at <= recs[j].started_at}

\* overtime.hours, eight hours, in seconds.
HoursForDay == 8 * 3600

RECURSIVE sum_values(_)
\* Iterator::sum over the values of a map.
sum_values(map) ==
    IF DOMAIN map = {} THEN 0
    ELSE LET key == CHOOSE k \in DOMAIN map : TRUE
         IN  map[key] + sum_values([k \in DOMAIN map \ {key} |-> map[k]])

\* HashMap::new.
EmptyMap == [k \in {} |-> 0]

\* OvertimeIter::new; `all` remembers the records handed over, `ended` that
\* the loop of overtime has received None, `entries` what it has received.
OvertimeIter_new(recs, hours_for_day, rounding_minutes, now, tz) ==
    [fn |-> "overtime", all |-> recs, records |-> recs, now |-> now,
     timezone |-> tz, hours_for_day |-> hours_for_day,
     rounding_minutes |-> rounding_minutes, day |-> None,
     seconds_day |-> EmptyMap, hours_total |-> 0, finished |-> FALSE,
     ended |-> FALSE, entries |-> <<>>]

\* Mutant: once a day has begun, a record of another day does not end it.
scan_day_never_next_day(it) ==
    LET n == IF it.day = None THEN 0 ELSE Len(it.records)
        taken == SubSeq(it.records, 1, n)
        rest  == SubSeq(it.records, n + 1, Len(it.records))
        keys  == DOMAIN it.seconds_day \cup {taken[i].project : i \in DOMAIN taken}
        seconds ==
            [p \in keys |->
                (IF p \in DOMAIN it.seconds_day THEN it.seconds_day[p] ELSE 0)
                + sum_durations(SelectSeq(taken, LAMBDA r : r.project = p), it.now)]
    IN  [it EXCEPT !.records = rest,
                   !.seconds_day = seconds,
                   !.finished = (rest = <<>>),
                   !.day = IF rest = <<>> THEN it.day
                           ELSE Some(local_date(it.timezone, Head(rest).started_at))]

\* The loop of next: the records at the head that start on self.day are added
\* to seconds_day and consumed; the first record of another day becomes
\* self.day and stays in the iterator; without a record left, finished is set.
scan_day(it) ==
    LET n == IF it.day = None THEN 0
             ELSE same_day_run(it.records, it.timezone, Unwrap(it.day))
        taken == SubSeq(it.records, 1, n)
        rest  == SubSeq(it.records, n + 1, Len(it.records))
        keys  == DOMAIN it.seconds_day \cup {taken[i].project : i \in DOMAIN taken}
        seconds ==
            [p \in keys |->
                (IF p \in DOMAIN it.seconds_day THEN it.seconds_day[p] ELSE 0)
                + sum_durations(SelectSeq(taken, LAMBDA r : r.project = p), it.now)]
    IN  [it EXCEPT !.records = rest,
                   !.seconds_day = seconds,
                   !.finished = (rest = <<>>),
                   !.day = IF rest = <<>> THEN it.day
                           ELSE Some(local_date(it.timezone, Head(rest).started_at))]

\* The balance is the difference of the day alone.
overtime_record_forgets_total(it, day) ==
    LET hours_for_day == IF weekday(day) \in {5, 6} THEN 0 ELSE it.hours_for_day
        rounded == [p \in DOMAIN it.seconds_day |->
                       round_to_next(it.seconds_day[p], it.rounding_minutes * 60)]
        hours == sum_values(rounded)
        difference == hours - hours_for_day
    IN  [it EXCEPT !.seconds_day = EmptyMap,
                   !.hours_total = difference,
                   !.entries = Append(it.entries,
                       [date |-> day, hours_day |-> hours,
                        hours_difference |-> difference,
                        hours_total |-> difference])]

\* The OvertimeRecord of a day: seconds_day is drained, every value rounded.
overtime_record(it, day) ==
    LET hours_for_day == IF weekday(day) \in {5, 6} THEN 0 ELSE it.hours_for_day
        rounded == [p \in DOMAIN it.seconds_day |->
                       round_to_next(it.seconds_day[p], it.rounding_minutes * 60)]
        hours == sum_values(rounded)
        difference == hours - hours_for_day
    IN  [it EXCEPT !.seconds_day = EmptyMap,
                   !.hours_total = it.hours_total + difference,
                   !.entries = Append(it.entries,
                       [date |-> day, hours_day |-> hours,
                        hours_difference |-> difference,
                        hours_total |-> it.hours_total + difference])]

RECURSIVE OvertimeIter_next(_)
\* OvertimeIter::next over records that load without an error; it calls
\* itself when no day had been begun.
OvertimeIter_next(it) ==
    IF it.finished THEN [it EXCEPT !.ended = TRUE]
    ELSE LET today == it.day
             scanned == scan_day(it)
         IN  IF today = None THEN OvertimeIter_next(scanned)
             ELSE overtime_record(scanned, Unwrap(today))

\* overtime builds the iterator over all_records.
Overtime(recs, now, tz, rounding_minutes) ==
    /\ fcall' = OvertimeIter_new(recs, HoursForDay, rounding_minutes, now, tz)
    /\ UNCHANGED <<records, op, last_record, changes>>

DoOvertime ==
    \E recs \in all_records_results, now \in AggNows, tz \in AggZones,
       rounding_minutes \in AggRounding :
        Overtime(recs, now, tz, rounding_minutes)

\* One turn of the loop of overtime.
OvertimeNext ==
    /\ fcall.fn = "overtime"
    /\ ~fcall.ended
    /\ fcall' = OvertimeIter_next(fcall)
    /\ UNCHANGED <<records, op, last_record, changes>>

NextAgg ==
    \/ (fcall = NoCall /\ DoPrintGranularityDaily)
    \/ (fcall = NoCall /\ DoOvertime)
    \/ OvertimeNext

\* The daily listing and the overtime report over lists of records.
SpecAgg == Init /\ [][NextAgg]_vars

\* The local dates on which records of a list start.
DaysOf(recs, tz) == {local_date(tz, recs[i].started_at) : i \in DOMAIN recs}

\* The records of a list that start on a local date and belong to a project.
RecordsOn(recs, tz, date, project) ==
    SelectSeq(recs, LAMBDA r : local_date(tz, r.started_at) = date
                               /\ r.project = project)

\* The least multiple of the unit that is not below the value.
LeastMultipleNotBelow(value, unit) == 0 - (((0 - value) \div unit) * unit)

\* The sum of a day's durations for a project, rounded up once.
RoundedSum(c, date, project) ==
    LeastMultipleNotBelow(
        sum_durations(RecordsOn(c.all, c.timezone, date, project), c.now),
        c.rounding_minutes * 60)

\* C15: the daily listing reports, for every day and project with records, one
\* duration: the sum of that day's durations for the project, rounded up once
\* to the next multiple of the unit; and the hours the overtime report gives
\* for a day are the sum of these rounded values over the projects.
C15_RoundedOncePerDayAndProject ==
    /\ fcall.fn = "print_granularity_daily" =>
           LET c == [all |-> fcall.records, timezone |-> fcall.timezone,
                     now |-> fcall.now, rounding_minutes |-> fcall.rounding_minutes]
           IN  \A date \in DaysOf(c.all, c.timezone), project \in Projects :
                   LET lines == {i \in DOMAIN fcall.lines :
                                    /\ fcall.lines[i].date = date
                                    /\ fcall.lines[i].project = project}
                   IN  RecordsOn(c.all, c.timezone, date, project) # <<>> =>
                           /\ Cardinality(lines) = 1
                           /\ \A i \in lines :
                                  fcall.lines[i].duration = RoundedSum(c, date, project)
    /\ fcall.fn = "overtime" =>
           \A k \in DOMAIN fcall.entries :
               fcall.entries[k].hours_day =
                   sum_values([p \in Projects |->
                                  RoundedSum(fcall, fcall.entries[k].date, p)])

\* The seconds the report counts as worked on a day: the sum over the projects
\* of what round_to_next makes of the day's seconds for the project.
WorkedOn(c, date) ==
    sum_values([p \in Projects |->
        round_to_next(sum_durations(RecordsOn(c.all, c.timezone, date, p), c.now),
                      c.rounding_minutes * 60)])

\* The seconds expected on a day: none on Saturday and Sunday.
ExpectedOn(c, date) == IF weekday(date) \in {5, 6} THEN 0 ELSE c.hours_for_day

----------------------------------------------------------------------------
(* src/records/db.rs and src/records.rs: list_records *)

\* The ways of listing every element of a set once.
Enumerations(S) ==
    {order \in [1..Cardinality(S) -> S] :
        \A i, j \in DOMAIN order : order[i] = order[j] => i = j}

\* query_records: the rows that end after start_date or are open, and start
\* before end_date.  The query has no ORDER BY clause, so SQL leaves the order
\* of the rows open (SQLite walks the table by rowid): every order is a
\* possible answer.
query_records(recs, start_date, end_date) ==
    LET found == {i \in DOMAIN recs :
                     /\ AbsentOrAfter(recs[i].ended_at, start_date)
                     /\ recs[i].started_at < end_date}
    IN  {[k \in DOMAIN order |-> recs[order[k]]] : order \in Enumerations(found)}

\* Records::list_records keeps the order of the rows of query_records.
ListRecords(start_date, end_date) ==
    /\ Len(records) <= MaxRecords
    /\ \E rows \in query_records(records, start_date, end_date) :
           fcall' = [fn |-> "list_records", start_date |-> start_date,
                     end_date |-> end_date, result |-> rows]
    /\ UNCHANGED <<records, op, last_record, changes>>

DoListRecords == \E s \in Times, e \in Times : ListRecords(s, e)

\* Records are added to the store; a listing ends the run.
NextList ==
    \/ (op = Idle /\ fcall = NoCall /\ DoAddRecord)
    \/ (fcall = NoCall /\ Return)
    \/ (op = Idle /\ fcall = NoCall /\ DoListRecords)

SpecList == Init /\ [][NextList]_vars

\* C18: list_records returns the records that overlap the range, each once,
\* in the order of their starts, whatever the store holds.
C18_ListIsOrderedByStart ==
    fcall.fn = "list_records" =>
        /\ \A i, j \in DOMAIN fcall.result :
               i < j => fcall.result[i].started_at <= fcall.result[j].started_at
        /\ {fcall.result[i].id : i \in DOMAIN fcall.result} =
               {r.id : r \in {records[i] : i \in DOMAIN records} \cap
                                {r \in {records[i] : i \in DOMAIN records} :
                                    /\ AbsentOrAfter(r.ended_at, fcall.start_date)
                                    /\ r.started_at < fcall.end_date}}

----------------------------------------------------------------------------
(* src/bin/tst/commands.rs: ls, and print of src/print.rs *)

\* commands::Granularity.
Granularities == {"auto", "all", "daily", "weekly", "monthly"}

\* print: "all" and "daily" are written, every other granularity reaches
\* unimplemented!().
print(granularity) ==
    IF granularity \in {"all", "daily"} THEN "printed" ELSE "panic"

\* What ls makes of Granularity::Auto: end - start is compared with
\* Duration::days(6), Duration::weeks(4) and Duration::days(60).
shown_granularity(granularity, start, end) ==
    IF granularity # "auto" THEN granularity
    ELSE IF end - start <= 6 * SecondsPerDay THEN "all"
    ELSE IF end - start <= 4 * 7 * SecondsPerDay THEN "daily"
    ELSE IF end - start <= 60 * SecondsPerDay THEN "weekly"
    ELSE "monthly"

\* The --since texts of ls: "now", a text that does not parse, and the small
\* counts of every unit; the --until texts: "now", "1 d", and one that does
\* not parse.
SinceTexts ==
    {RelText("now", 0, ""), RelText("garbage", 0, "")}
    \cup {RelText("count", n, u) : n \in 0..MaxCount, u \in Units}

UntilTexts == {RelText("now", 0, ""), RelText("count", 1, "d"), RelText("garbage", 0, "")}

\* ls: both texts are parsed, the granularity is settled, the records of the
\* range are printed.  `shown` is the granularity handed to print, None when
\* ls has returned an error before.
ls_outcome(since, until, granularity, start, end) ==
    IF start.panic \/ (start.value # None /\ end.panic)
    THEN [shown |-> None, outcome |-> "panic"]
    ELSE IF start.value = None
    THEN [shown |-> None, outcome |-> "could not parse start time"]
    ELSE IF end.value = None
    THEN [shown |-> None, outcome |-> "could not parse end time"]
    ELSE LET shown == shown_granularity(granularity, Unwrap(start.value),
                                        Unwrap(end.value))
         IN  [shown |-> Some(shown), outcome |-> print(shown)]

Ls(since, until, granularity, timezone, today) ==
    \E start \in parse_relative_date(since, timezone, today),
       end \in parse_relative_date(until, timezone, today) :
        /\ fcall' = [fn |-> "ls", since |-> since, until |-> until,
                     granularity |-> granularity, timezone |-> timezone,
                     today |-> today, start |-> start.value, end |-> end.value,
                     run |-> ls_outcome(since, until, granularity, start, end)]
        /\ UNCHANGED <<records, op, last_record, changes>>

DoLs ==
    \E since \in SinceTexts, until \in UntilTexts, granularity \in Granularities,
       timezone \in TimeZones, today \in Todays :
        Ls(since, until, granularity, timezone, today)

NextLs == fcall = NoCall /\ DoLs

\* The ls command over its texts and granularities.
SpecLs == Init /\ [][NextLs]_vars

\* C19: for every granularity the command line accepts, the listing ends with
\* its output or with an error, never with a fault.
C19_EveryGranularityIsPrinted ==
    (fcall.fn = "ls" /\ fcall.run.shown # None) => fcall.run.outcome = "printed"

----------------------------------------------------------------------------
(* src/bin/tst/commands.rs: go, stop and edit with the texts of --start and  *)
(* --end; src/records.rs and src/records/db.rs: update_record                *)

\* A text given to --start or --end, represented by what parse_date returns
\* for it: None, or an instant of the store.
Text(parsed) == [parsed |-> parsed]

ArgTexts == {Text(p) : p \in OptionTimes}

\* --start and --end are Option<String>.
Args == {None} \cup {Some(t) : t \in ArgTexts}

\* parse_date(&dt, &Local, today) on the text of an argument.
parse_arg(text) == text.parsed

\* What a command reports when it ends: the texts it was given and its error.
Ended(cmd, start, end, error) ==
    [fn |-> cmd, start |-> start, end |-> end, error |-> error]

\* `?` on an Err: the command returns the error before it calls the store.
Abort(cmd, start, end, error) ==
    /\ fcall' = Ended(cmd, start, end, Some(error))
    /\ UNCHANGED <<records, op, last_record, changes>>

\* --end is parsed only after the previous record has been completed.
GoCommand_parses_end_late(name, start, end, allow_overlap, now) ==
    LET start_date == IF start = None THEN Some(now) ELSE parse_arg(Unwrap(start))
        end_date == IF end = None THEN None ELSE parse_arg(Unwrap(end))
    IN  IF start_date = None
        THEN Abort("go", start, end, "could not parse start time")
        ELSE IF end # None /\ end_date = None
        THEN \E last \in IF allow_overlap THEN {None}
                         ELSE get_most_recent_record(records, Unwrap(start_date)) :
                 /\ records' = complete_last_record(records, last,
                                                    Unwrap(start_date), None).records
                 /\ fcall' = Ended("go", start, end, Some("could not parse end time"))
                 /\ UNCHANGED <<op, last_record, changes>>
        ELSE /\ Go(name, Unwrap(start_date), end_date, allow_overlap)
             /\ fcall' = Ended("go", start, end, None)

\* commands::go: --start and --end are parsed first, by `?`; the reading of
\* the clock stands in for an absent --start.
GoCommand(name, start, end, allow_overlap, now) ==
    LET start_date == IF start = None THEN Some(now) ELSE parse_arg(Unwrap(start))
        end_date == IF end = None THEN None ELSE parse_arg(Unwrap(end))
    IN  IF start_date = None
        THEN Abort("go", start, end, "could not parse start time")
        ELSE IF end # None /\ end_date = None
        THEN Abort("go", start, end, "could not parse end time")
        ELSE /\ Go(name, Unwrap(start_date), end_date, allow_overlap)
             /\ fcall' = Ended("go", start, end, None)

\* commands::stop.
StopCommand(end, now) ==
    LET end_date == IF end = None THEN Some(now) ELSE parse_arg(Unwrap(end))
    IN  IF end_date = None
        THEN Abort("stop", None, end, "could not parse end time")
        ELSE /\ Stop(Unwrap(end_date))
             /\ fcall' = Ended("stop", None, end, None)

\* Mutant: a None of the changeset is written as NULL (treat_none_as_null).
update_record_none_as_null(recs, record_id, started_at, ended_at, task) ==
    IF started_at = None /\ ended_at = None /\ task = None
    THEN [records |-> recs, error |-> Some("no changes to save")]
    ELSE IF record_id \notin DOMAIN recs
    THEN [records |-> recs, error |-> Some("not found")]
    ELSE LET old == recs[record_id]
             new == Row(old.id,
                        IF task = None THEN old.task ELSE Unwrap(task),
                        IF started_at = None THEN old.started_at ELSE Unwrap(started_at),
                        ended_at)
         IN  [records |-> [recs EXCEPT ![record_id] = new], error |-> None]

\* db::update_record: the columns given are set on the row with the id.  A
\* changeset without any column cannot be built, and a missing row yields
\* NotFound; the table is then as before.
update_record(recs, record_id, started_at, ended_at, task) ==
    IF started_at = None /\ ended_at = None /\ task = None
    THEN [records |-> recs, error |-> Some("no changes to save")]
    ELSE IF record_id \notin DOMAIN recs
    THEN [records |-> recs, error |-> Some("not found")]
    ELSE LET old == recs[record_id]
             new == Row(old.id,
                        IF task = None THEN old.task ELSE Unwrap(task),
                        IF started_at = None THEN old.started_at ELSE Unwrap(started_at),
                        IF ended_at = None THEN old.ended_at ELSE ended_at)
         IN  [records |-> [recs EXCEPT ![record_id] = new], error |-> None]

\* commands::edit: both texts are parsed, by `?`, before Records::update_record
\* decodes the id (None: a text desqid rejects) and updates the row.  The
\* tasks table, where upsert_task may add the task before the update fails,
\* is not part of the model.
EditCommand(record_id, start, end, task_name) ==
    LET start_date == IF start = None THEN None ELSE parse_arg(Unwrap(start))
        end_date == IF end = None THEN None ELSE parse_arg(Unwrap(end))
        updated == update_record(records, Unwrap(record_id), start_date, end_date,
                                 task_name)
    IN  IF start # None /\ start_date = None
        THEN Abort("edit", start, end, "could not parse start time")
        ELSE IF end # None /\ end_date = None
        THEN Abort("edit", start, end, "could not parse end time")
        ELSE IF record_id = None
        THEN Abort("edit", start, end, "invalid record id")
        ELSE IF updated.error # None
        THEN Abort("edit", start, end, Unwrap(updated.error))
        ELSE /\ records' = updated.records
             /\ op' = Call("edit", IF task_name = None THEN "" ELSE Unwrap(task_name),
                           end_date, start_date, FALSE)
             /\ last_record' = None
             /\ changes' = <<updated.records[Unwrap(record_id)]>>
             /\ fcall' = Ended("edit", start, end, None)

\* The process of the command exits; the table stays.
Exit ==
    /\ fcall # NoCall
    /\ fcall' = NoCall
    /\ op' = Idle
    /\ last_record' = None
    /\ changes' = <<>>
    /\ UNCHANGED records

DoGoCommand ==
    \E name \in Tasks, start \in Args, end \in Args, allow_overlap \in BOOLEAN,
       now \in Times :
        GoCommand(name, start, end, allow_overlap, now)

DoStopCommand == \E end \in Args, now \in Times : StopCommand(end, now)

DoEditCommand ==
    \E record_id \in {None} \cup {Some(i) : i \in 1..MaxRecords},
       start \in Args, end \in Args, task_name \in {None} \cup {Some(t) : t \in Tasks} :
        EditCommand(record_id, start, end, task_name)

\* The command line with its texts: one command per process, issued on a
\* table of fewer than MaxRecords rows.
NextArgs ==
    \/ (fcall = NoCall /\ Len(records) < MaxRecords /\ DoGoCommand)
    \/ (fcall = NoCall /\ Len(records) < MaxRecords /\ DoStopCommand)
    \/ (fcall = NoCall /\ Len(records) < MaxRecords /\ DoEditCommand)
    \/ Exit

SpecArgs == Init /\ [][NextArgs]_vars

\* The text of an argument is present and parse_date returns None for it.
FailsToParse(arg) == arg # None /\ parse_arg(Unwrap(arg)) = None

\* C11: a go, stop or edit whose --start or --end text does not parse ends
\* with an error, and the records table is as it was before the command.
C11_Step ==
    (fcall = NoCall /\ fcall' # NoCall
       /\ (FailsToParse(fcall'.start) \/ FailsToParse(fcall'.end)))
        => /\ fcall'.error \in {Some("could not parse start time"),
                                Some("could not parse end time")}
           /\ records' = records

C11_ParseFailureChangesNothing == [][C11_Step]_vars

\* A go with a --start that parses and an --end that does not has ended with
\* an error on a table that holds an open record.
C11_Witness ==
    /\ fcall # NoCall
    /\ fcall.fn = "go"
    /\ ~FailsToParse(fcall.start)
    /\ FailsToParse(fcall.end)
    /\ fcall.error = Some("could not parse end time")
    /\ \E i \in DOMAIN records : records[i].ended_at = None

----------------------------------------------------------------------------
(* src/records.rs: Records::update_record and the ids it takes and returns *)

\* The text of a record id, represented by what SQIDS.decode and the
\* conversion to i32 make of it: the id of a row, or nothing.
IdText(decoded) == [decoded |-> decoded]

\* sqid: the text that decodes to the id.
sqid(record_id) == IdText(Some(record_id))

\* desqid: the id a text decodes to; None stands for the Err of a text that
\* does not decode to one number.
desqid(text) == text.decoded

\* The texts an update is called with: the ids of the rows a table can hold,
\* the id of a row it cannot hold, and a text that does not decode.
IdTexts == {sqid(i) : i \in 1..(MaxRecords + 1)} \cup {IdText(None)}

\* records::Record, as update_record builds it.
UpdatedRecord(id, row) ==
    [id |-> id, task |-> row.task, started_at |-> row.started_at,
     ended_at |-> row.ended_at]

\* Err(_) of a Result.
Err(error) == [ok |-> FALSE, error |-> error]

\* Ok(_) of a Result.
Ok(value) == [ok |-> TRUE, value |-> value]

\* Records::update_record: the table afterwards and the Result.
Records_update_record(recs, record_id, start_date, end_date, task_name) ==
    LET id == desqid(record_id)
        updated == update_record(recs, Unwrap(id), start_date, end_date, task_name)
    IN  IF id = None
        THEN [records |-> recs, result |-> Err("invalid record id")]
        ELSE IF updated.error # None
        THEN [records |-> recs, result |-> Err(Unwrap(updated.error))]
        ELSE [records |-> updated.records,
              result |-> Ok(UpdatedRecord(record_id, updated.records[Unwrap(id)]))]

\* records.update_record(record_id, start_date, end_date, task_name)
UpdateRecord(record_id, start_date, end_date, task_name) ==
    LET done == Records_update_record(records, record_id, start_date, end_date,
                                      task_name)
    IN  /\ records' = done.records
        /\ fcall' = [fn |-> "update_record", record_id |-> record_id,
                     start_date |-> start_date, end_date |-> end_date,
                     task_name |-> task_name, result |-> done.result]
        /\ UNCHANGED <<op, last_record, changes>>

DoUpdateRecord ==
    \E record_id \in IdTexts, start_date \in OptionTimes, end_date \in OptionTimes,
       task_name \in {None} \cup {Some(t) : t \in Tasks} :
        UpdateRecord(record_id, start_date, end_date, task_name)

\* The records of one task are added, as the test of update_record adds its
\* record, and one of them is then updated.
NextUpdate ==
    \/ (fcall = NoCall /\ \E s \in Times, e \in OptionTimes : AddRecord("abc", s, e))
    \/ (fcall = NoCall /\ DoUpdateRecord)

SpecUpdate == Init /\ [][NextUpdate]_vars

\* C21: update_record(id, start, end, task) changes only the supplied fields
\* of the identified record: an absent start, end or task leaves the field as
\* stored, a supplied one is stored, the returned record carries the id it was
\* called with and the row's fields, and no other record is modified; a call
\* that returns an error modifies nothing.
C21_Step ==
    (fcall = NoCall /\ fcall' # NoCall /\ fcall'.fn = "update_record") =>
        LET c == fcall'
            id == desqid(c.record_id)
        IN  /\ Len(records') = Len(records)
            /\ \A i \in DOMAIN records : Some(i) # id => records'[i] = records[i]
            /\ ~c.result.ok => records' = records
            /\ c.result.ok =>
                 LET old == records[Unwrap(id)]
                     new == records'[Unwrap(id)]
                 IN  /\ new.id = old.id
                     /\ new.started_at = IF c.start_date = None THEN old.started_at
                                         ELSE Unwrap(c.start_date)
                     /\ new.ended_at = IF c.end_date = None THEN old.ended_at
                                       ELSE c.end_date
                     /\ new.task = IF c.task_name = None THEN old.task
                                   ELSE Unwrap(c.task_name)
                     /\ c.result.value = UpdatedRecord(c.record_id, new)

C21_UpdateChangesOnlySuppliedFields == [][C21_Step]_vars

\* The first of two records got a new start and a new task while its end,
\* which was not supplied, is still stored, and the second record is there.
C21_Witness ==
    /\ fcall # NoCall
    /\ fcall.fn = "update_record"
    /\ fcall.result.ok
    /\ fcall.record_id = sqid(1)
    /\ fcall.start_date # None
    /\ fcall.end_date = None
    /\ fcall.task_name = Some("def")
    /\ Len(records) = 2
    /\ records[1].ended_at # None
    /\ records[1].task = "def"
    /\ records[1].started_at = Unwrap(fcall.start_date)
    /\ records[2].task = "abc"
    /\ fcall.result.value.id = sqid(1)

----------------------------------------------------------------------------
(* src/parse/dateparse.rs: the local time parse_date resolves *)

\* y-m-d is a date of the calendar: the day number of y-m-d reads back as y-m-d.
IsCalendarDate(ymd) ==
    /\ ymd.month \in 1..12
    /\ ymd.day \in 1..31
    /\ civil_from_days(days_from_civil(ymd.year, ymd.month, ymd.day)) = ymd

\* The instants, on the grid of hours around it, whose local time in the zone
\* is the given one.
InstantsAt(tz, local) ==
    {u \in {local - k * 3600 : k \in (0 - 14)..14} : u + offset_at(tz, u) = local}

\* A call of parse_date on a text REGEX matches and whose day was resolved.
IsResolvedText(c) == c.fn = "parse_date" /\ c.day # None

\* The seconds of the text, 0 when it has none.
SecondsOf(date) == IF date.sec = None THEN 0 ELSE Unwrap(date.sec)

\* The date and the time of day of the text are valid.
IsValidLocal(c) ==
    /\ IsCalendarDate(ymd_with_default(c.date, Unwrap(c.day)))
    /\ c.date.hour <= 23
    /\ c.date.min <= 59
    /\ SecondsOf(c.date) <= 59

\* The local time of the text in seconds.
LocalOf(c) ==
    LET ymd == ymd_with_default(c.date, Unwrap(c.day))
    IN  days_from_civil(ymd.year, ymd.month, ymd.day) * SecondsPerDay
        + c.date.hour * 3600 + c.date.min * 60 + SecondsOf(c.date)

\* C22: when the resolved local date and time map to two UTC instants, the
\* later of the two is returned; when they map to one, that one is returned;
\* when they map to none, or the calendar date or the time of day is invalid,
\* parse_date returns None.
C22_LocalTimeResolution ==
    IsResolvedText(fcall) =>
        IF ~IsValidLocal(fcall)
        THEN fcall.result = None
        ELSE LET at == InstantsAt(fcall.timezone, LocalOf(fcall))
             IN  /\ at = {} => fcall.result = None
                 /\ at # {} => /\ Cardinality(fcall.result) = 1
                               /\ fcall.result \subseteq at
                               /\ \A u \in at : u <= Unwrap(fcall.result)

\* 2024-04-07 02:30:15 in Sydney is both 15:30:15Z (AEDT) and 16:30:15Z (AEST)
\* of 2024-04-06, and the second was returned.
C22_Witness ==
    /\ IsResolvedText(fcall)
    /\ fcall.timezone = Sydney
    /\ fcall.date.kind = "iso"
    /\ fcall.date.ymd = <<2024, 4, 7>>
    /\ fcall.date.hour = 2
    /\ Cardinality(InstantsAt(Sydney, LocalOf(fcall))) = 2
    /\ fcall.result = Some(LocalOf(fcall) - Sydney.after)
    /\ Unwrap(fcall.result) = 19819 * SecondsPerDay + 16 * 3600 + 30 * 60 + 15

\* 2024-03-31 02:30:15 does not exist in Berlin, and parse_date returned None.
C22_GapWitness ==
    /\ IsResolvedText(fcall)
    /\ fcall.timezone = Berlin
    /\ fcall.date.ymd = <<2024, 3, 31>>
    /\ fcall.date.hour = 2
    /\ IsValidLocal(fcall)
    /\ fcall.result = None

----------------------------------------------------------------------------
(* src/records.rs: the reopening step of complete_last_record *)

\* The call inserted one record: previous.task from start_time to the end the
\* previous record had before the call.
ReopenedFrom(recs, recs_after, previous, start_time) ==
    /\ Len(recs_after) = Len(recs) + 1
    /\ recs_after[Len(recs) + 1] =
           Row(Len(recs) + 1, previous.task, start_time, previous.ended_at)

\* C23, as stated: when the caller supplies start_time, a new record for the
\* same task, starting at start_time and ending at the previous record's
\* original end, is inserted if and only if the previous record's end, as it is
\* stored after the closing step, is absent or strictly after start_time.
C23_Original_Step ==
    (IsCompleteLastRecord(op') /\ op'.start_date # None /\ last_record' # None) =>
        LET start_time == Unwrap(op'.start_date)
            prev == Unwrap(last_record')
        IN  ReopenedFrom(records, records', prev, start_time)
                <=> AbsentOrAfter(records'[prev.id].ended_at, start_time)

C23_Original_ReopenedIffUpdatedEndAfterStart == [][C23_Original_Step]_vars

\* C23, amended: when the caller supplies start_time, a new record for the
\* same task, starting at start_time and ending at the previous record's
\* original end, is inserted if and only if the previous record's end as it was
\* stored before the call is absent or strictly after start_time; otherwise no
\* record is inserted.
C23_Step ==
    (IsCompleteLastRecord(op') /\ op'.start_date # None /\ last_record' # None) =>
        LET start_time == Unwrap(op'.start_date)
            prev == Unwrap(last_record')
        IN  /\ records[prev.id] = prev
            /\ IF AbsentOrAfter(prev.ended_at, start_time)
               THEN /\ ReopenedFrom(records, records', prev, start_time)
                    /\ changes'[Len(changes')] = records'[Len(records')]
               ELSE Len(records') = Len(records)

C23_ReopenedIffOriginalEndAfterStart == [][C23_Step]_vars

\* An open record was closed at end_time, start_time is not before end_time,
\* and the record was reopened at start_time although its stored end is now
\* at or before start_time.
C23_Witness ==
    /\ IsCompleteLastRecord(op)
    /\ op.start_date # None
    /\ last_record # None
    /\ Unwrap(last_record).ended_at = None
    /\ records[Unwrap(last_record).id].ended_at = op.end_date
    /\ Unwrap(op.end_date) <= Unwrap(op.start_date)
    /\ records[Len(records)] =
           Row(Len(records), Unwrap(last_record).task, Unwrap(op.start_date), None)
    /\ Len(records) > Unwrap(last_record).id

----------------------------------------------------------------------------
\* C24: complete_last_record returns 0, 1 or 2 changes, one for the record it
\* closed and one for the record it inserted; when it did both, the first
\* change is the closed record and the second the inserted one.
C24_Step ==
    IsCompleteLastRecord(op') =>
        LET closed == {i \in DOMAIN records : records'[i] # records[i]}
            reopened == (DOMAIN records') \ (DOMAIN records)
        IN  /\ Len(changes') \in 0..2
            /\ Len(changes') = Cardinality(closed) + Cardinality(reopened)
            /\ (closed # {} /\ reopened # {}) =>
                   /\ Len(changes') = 2
                   /\ changes'[1].id \in closed
                   /\ changes'[1] = records'[changes'[1].id]
                   /\ changes'[1].ended_at = op'.end_date
                   /\ changes'[2].id \in reopened
                   /\ changes'[2] = records'[changes'[2].id]
                   /\ changes'[2].started_at = Unwrap(op'.start_date)

C24_ClosingChangeComesFirst == [][C24_Step]_vars

\* A closed record that ran past end_time and start_time was truncated and
\* reopened: two changes, the truncated record first and the new one second.
C24_Witness ==
    /\ IsCompleteLastRecord(op)
    /\ op.start_date # None
    /\ last_record # None
    /\ Unwrap(last_record).ended_at # None
    /\ Len(changes) = 2
    /\ changes[1].id = Unwrap(last_record).id
    /\ changes[1].ended_at = op.end_date
    /\ changes[2].id = Len(records)
    /\ changes[2].id > changes[1].id
    /\ changes[2].ended_at = Unwrap(last_record).ended_at

----------------------------------------------------------------------------
\* C25: truncation only shortens.  After complete_last_record every record
\* that existed and had an ended_at before the call still has one, and it is
\* no later than it was.
C25_Step ==
    IsCompleteLastRecord(op') =>
        \A i \in DOMAIN records :
            records[i].ended_at # None =>
                /\ i \in DOMAIN records'
                /\ records'[i].ended_at # None
                /\ Unwrap(records'[i].ended_at) <= Unwrap(records[i].ended_at)

C25_TruncationOnlyShortens == [][C25_Step]_vars

\* A closed record that ran past end_time now ends at end_time, while a closed
\* record that ended before end_time is as it was.
C25_Witness ==
    /\ IsCompleteLastRecord(op)
    /\ last_record # None
    /\ Unwrap(last_record).ended_at # None
    /\ Unwrap(records[Unwrap(last_record).id].ended_at)
           < Unwrap(Unwrap(last_record).ended_at)
    /\ records[Unwrap(last_record).id].ended_at = op.end_date
    /\ \E i \in DOMAIN records :
           /\ i # Unwrap(last_record).id
           /\ PresentAtOrBefore(records[i].ended_at, Unwrap(op.end_date))

----------------------------------------------------------------------------
\* C26: a complete_last_record call whose start_time is absent or not before
\* its end_time never inserts the reopened record without also closing the
\* previous one; so when it returns exactly one change, that change is the
\* previous record, with its task, ending at end_time, and no record was
\* inserted.
C26_Step ==
    (/\ IsCompleteLastRecord(op')
     /\ op'.start_date = None \/ Unwrap(op'.end_date) <= Unwrap(op'.start_date)) =>
        LET end_time == Unwrap(op'.end_date)
            closed == {i \in DOMAIN records : records'[i] # records[i]}
            reopened == (DOMAIN records') \ (DOMAIN records)
        IN  /\ reopened # {} => closed # {}
            /\ Len(changes') = 1 =>
                   /\ last_record' # None
                   /\ changes'[1] = Row(Unwrap(last_record').id, Unwrap(last_record').task,
                                        Unwrap(last_record').started_at, Some(end_time))
                   /\ records'[changes'[1].id] = changes'[1]
                   /\ Len(records') = Len(records)

C26_OneChangeIsTheClosing == [][C26_Step]_vars

\* A closed record that ended after end_time and not after start_time was
\* truncated and not reopened: the one change is its closing.
C26_Witness ==
    /\ IsCompleteLastRecord(op)
    /\ op.start_date # None
    /\ Unwrap(op.end_date) <= Unwrap(op.start_date)
    /\ last_record # None
    /\ PresentAtOrBefore(Unwrap(last_record).ended_at, Unwrap(op.start_date))
    /\ Unwrap(Unwrap(last_record).ended_at) > Unwrap(op.end_date)
    /\ changes = <<[Unwrap(last_record) EXCEPT !.ended_at = op.end_date]>>

----------------------------------------------------------------------------
(* src/bin/tst/commands.rs: go inside a closed record *)

\* Four instants at least, so that p < S < E < q has a solution.
SplitTimes == 0..(MaxTime + 1)

\* A store whose only record is closed, as add_record(task, p, Some(q)) leaves it.
InitClosed ==
    \E t \in Tasks, p \in SplitTimes, q \in SplitTimes :
        /\ records = add_record(<<>>, t, p, Some(q))
        /\ op = Call("add_record", t, Some(q), Some(p), FALSE)
        /\ last_record = None
        /\ changes = <<>>
        /\ fcall = NoCall

\* One go on that store.
NextSplit ==
    /\ op.cmd = "add_record"
    /\ \E t \in Tasks, s \in SplitTimes, o \in BOOLEAN,
          e \in {None} \cup {Some(x) : x \in SplitTimes} :
           Go(t, s, e, o) /\ UNCHANGED fcall

SpecSplit == InitClosed /\ [][NextSplit]_vars

RECURSIVE TimeRecorded(_, _)
\* The time the closed records of a task add up to.
TimeRecorded(recs, task) ==
    IF recs = <<>> THEN 0
    ELSE LET r == recs[Len(recs)]
             rest == TimeRecorded(SubSeq(recs, 1, Len(recs) - 1), task)
         IN  IF r.task = task /\ r.ended_at # None
             THEN rest + (Unwrap(r.ended_at) - r.started_at)
             ELSE rest

\* go without --allow-overlap found the closed record [p, q] and added [S, E]
\* with p < S <= E < q.
IsGoInside(call, previous) ==
    /\ IsGoNoOverlap(call)
    /\ call.end_date # None
    /\ previous # None
    /\ Unwrap(previous).ended_at # None
    /\ Unwrap(previous).started_at < Unwrap(call.start_date)
    /\ Unwrap(call.start_date) <= Unwrap(call.end_date)
    /\ Unwrap(call.end_date) < Unwrap(Unwrap(previous).ended_at)

\* The table holds [p, S] and [E, q] for the previous task and [S, E] for the
\* new task: the previous record truncated, and two added records.
HoldsSplit(recs, recs_after, call, prev) ==
    LET S == Unwrap(call.start_date)
        E == Unwrap(call.end_date)
    IN  /\ Len(recs_after) = Len(recs) + 2
        /\ \A i \in DOMAIN recs : i # prev.id => recs_after[i] = recs[i]
        /\ recs_after[prev.id] = Row(prev.id, prev.task, prev.started_at, Some(S))
        /\ recs_after[Len(recs) + 1] = Row(Len(recs) + 1, prev.task, E, prev.ended_at)
        /\ recs_after[Len(recs) + 2] = Row(Len(recs) + 2, call.name, S, Some(E))

\* C27, as stated: after such a go the store holds [p, S] and [E, q] for the
\* previous task and [S, E] for the new task, and the time recorded for the
\* previous task has decreased by exactly E - S.
C27_Original_Step ==
    IsGoInside(op', last_record') =>
        LET prev == Unwrap(last_record')
        IN  /\ HoldsSplit(records, records', op', prev)
            /\ TimeRecorded(records', prev.task) =
                   TimeRecorded(records, prev.task)
                       - (Unwrap(op'.end_date) - Unwrap(op'.start_date))

C27_Original_SplitTiling == [][C27_Original_Step]_vars

\* C27, amended: after such a go the store holds [p, S] and [E, q] for the
\* previous task and [S, E] for the new task, which tile [p, q]; the time
\* recorded for the previous task has decreased by exactly E - S when the new
\* task is another task, whose recorded time has then increased by E - S, and
\* is unchanged when go names the previous task.
C27_Step ==
    IsGoInside(op', last_record') =>
        LET prev == Unwrap(last_record')
            given == IF op'.name = prev.task THEN 0
                     ELSE Unwrap(op'.end_date) - Unwrap(op'.start_date)
        IN  /\ HoldsSplit(records, records', op', prev)
            /\ TimeRecorded(records', prev.task) = TimeRecorded(records, prev.task) - given
            /\ op'.name # prev.task =>
                   TimeRecorded(records', op'.name) = TimeRecorded(records, op'.name) + given

C27_SplitTiling == [][C27_Step]_vars

\* [0, 3] of one task was split by a go of the other task from 1 to 2: the
\* store holds [0, 1], [2, 3] and [1, 2].
C27_Witness ==
    /\ IsGoInside(op, last_record)
    /\ Unwrap(op.start_date) < Unwrap(op.end_date)
    /\ op.name # Unwrap(last_record).task
    /\ Len(records) = 3
    /\ records[1] = [Unwrap(last_record) EXCEPT !.ended_at = op.start_date]
    /\ records[2] = Row(2, records[1].task, Unwrap(op.end_date), Unwrap(last_record).ended_at)
    /\ records[3] = Row(3, op.name, Unwrap(op.start_date), op.end_date)
    /\ TimeRecorded(records, records[1].task) = 2

----------------------------------------------------------------------------
(* src/bin/tst/commands.rs: go and stop without options, timed by the clock *)

\* Utc::now().round_subsecs(0): the clock does not run backwards, so a
\* reading is not before the previous one; two readings can be the same second.
Now(now) == [fn |-> "Utc::now", result |-> now]

ClockReads(now) == IF fcall = NoCall THEN TRUE ELSE fcall.result <= now

\* tst go NAME
GoNow(name) ==
    \E now \in Times :
        /\ ClockReads(now)
        /\ Go(name, now, None, FALSE)
        /\ fcall' = Now(now)

\* tst stop
StopNow ==
    \E now \in Times :
        /\ ClockReads(now)
        /\ Stop(now)
        /\ fcall' = Now(now)

DoGoNow == \E name \in Tasks : GoNow(name)

\* One command per process, each reading the clock, on a store that starts empty.
NextClock ==
    \/ op = Idle /\ DoGoNow
    \/ op = Idle /\ StopNow
    \/ Return

SpecClock == Init /\ [][NextClock]_vars

\* The records without an end.
OpenRecords(recs) == {i \in DOMAIN recs : recs[i].ended_at = None}

\* C28: after any sequence of go and stop commands without options, from an
\* empty store and with clock readings that do not decrease, at most one stored
\* record is open.
C28_AtMostOneOpenRecord == Cardinality(OpenRecords(records)) <= 1

----------------------------------------------------------------------------
(* src/bin/tst/commands.rs: OvertimeIter called beyond its end *)

\* A caller keeps calling next at most MaxFurtherCalls times after a None.
MaxFurtherCalls == 2

\* An iterator in the hands of a caller, with what each call of next returned.
Iterating(it, returns) == [fn |-> "OvertimeIter", it |-> it, returns |-> returns]

\* OvertimeIter::new(records, hours_for_day, rounding_minutes, now)
NewOvertimeIter(recs, now, tz, rounding_minutes) ==
    /\ fcall' = Iterating(OvertimeIter_new(recs, HoursForDay, rounding_minutes, now, tz),
                          <<>>)
    /\ UNCHANGED <<records, op, last_record, changes>>

\* Friday 10:00, Friday 23:00, Saturday 10:00 and, after a Sunday without
\* records, Monday 10:00, UTC.
IterStarts == AggStarts \cup {(AggDay + 3) * SecondsPerDay + 36000}

\* A record handed to the iterator is open or lasts 10 minutes.
IterRecords ==
    {Record(p, "abc", s, e) :
        p \in Projects, s \in IterStarts, e \in {None}} \cup
    {Record(p, "abc", s, Some(s + 600)) : p \in Projects, s \in IterStarts}

\* The inputs of the iterator: lists of at most MaxList records, sorted by start.
IterLists ==
    {recs \in UNION {[1..n -> IterRecords] : n \in 0..MaxList} :
        \A i, j \in DOMAIN recs : i < j => recs[i].started_at <= recs[j].started_at}

DoNewOvertimeIter ==
    \E recs \in IterLists, now \in AggNows, tz \in AggZones,
       rounding_minutes \in AggRounding :
        NewOvertimeIter(recs, now, tz, rounding_minutes)

\* The Nones among the values returned.
NonesIn(returns) == {k \in DOMAIN returns : returns[k] = None}

\* iter.next(): Some(Ok(entry)) when the call has produced an entry, else None.
CallNext ==
    /\ fcall.fn = "OvertimeIter"
    /\ Cardinality(NonesIn(fcall.returns)) <= MaxFurtherCalls
    /\ LET after == OvertimeIter_next(fcall.it)
           item == IF Len(after.entries) > Len(fcall.it.entries)
                   THEN Some(after.entries[Len(after.entries)])
                   ELSE None
       IN  fcall' = Iterating(after, Append(fcall.returns, item))
    /\ UNCHANGED <<records, op, last_record, changes>>

NextIter ==
    \/ (fcall = NoCall /\ DoNewOvertimeIter)
    \/ CallNext

\* OvertimeIter over lists of records sorted by start.
SpecIter == Init /\ [][NextIter]_vars

RECURSIVE SortedDays(_)
\* The dates of a set in ascending order.
SortedDays(days) ==
    IF days = {} THEN <<>>
    ELSE LET first == CHOOSE d \in days : \A e \in days : d <= e
         IN  <<first>> \o SortedDays(days \ {first})

\* C29: over records sorted by start, the k-th call of next returns the entry
\* of the k-th distinct local day on which a record starts, in the order of the
\* input, and every call after the last such day returns None; the balance of
\* an entry is the balance of the entry before it plus the entry's own
\* difference, so a day without records contributes nothing.
C29_OneEntryPerDayThenNone ==
    fcall.fn = "OvertimeIter" =>
        LET days == SortedDays(DaysOf(fcall.it.all, fcall.it.timezone))
            returns == fcall.returns
        IN  \A k \in DOMAIN returns :
                IF k <= Len(days)
                THEN /\ returns[k] # None
                     /\ Unwrap(returns[k]).date = days[k]
                     /\ Unwrap(returns[k]).hours_total =
                            (IF k = 1 THEN 0 ELSE Unwrap(returns[k - 1]).hours_total)
                            + Unwrap(returns[k]).hours_difference
                ELSE returns[k] = None

\* Records on Friday and on Monday, none on the days between: next returned
\* Friday's entry, Monday's entry, whose balance adds Monday's difference to
\* Friday's balance, then None and None again.
C29_Witness ==
    /\ fcall.fn = "OvertimeIter"
    /\ Len(fcall.it.all) = 3
    /\ Len(fcall.returns) = 4
    /\ fcall.returns[1] # None
    /\ fcall.returns[2] # None
    /\ Unwrap(fcall.returns[1]).date = AggDay
    /\ Unwrap(fcall.returns[2]).date = AggDay + 3
    /\ Unwrap(fcall.returns[2]).hours_total =
           Unwrap(fcall.returns[1]).hours_total + Unwrap(fcall.returns[2]).hours_difference
    /\ fcall.returns[3] = None
    /\ fcall.returns[4] = None
    /\ fcall.it.finished

----------------------------------------------------------------------------
(* src/bin/tst/commands.rs: the range of ls, --since COUNT UNIT --until now *)

\* The COUNTs of a range: the small ones, 40, and the large ones.
RangeCounts == Counts \cup {40}

\* parse_relative_date on "COUNT UNIT" for two COUNTs of one unit, the second
\* not below the first, and on "now", with the same zone and date.
ParseRange(fewer, more, unit, timezone, today) ==
    \E near \in parse_relative_date(RelText("count", fewer, unit), timezone, today),
       far \in parse_relative_date(RelText("count", more, unit), timezone, today),
       until \in parse_relative_date(RelText("now", 0, ""), timezone, today) :
        /\ fcall' = [fn |-> "range", unit |-> unit, fewer |-> fewer, more |-> more,
                     timezone |-> timezone, today |-> today,
                     near |-> near, far |-> far, until |-> until]
        /\ UNCHANGED <<records, op, last_record, changes>>

DoParseRange ==
    \E fewer \in RangeCounts, more \in RangeCounts, unit \in Units,
       timezone \in TimeZones, today \in Todays :
        fewer <= more /\ ParseRange(fewer, more, unit, timezone, today)

NextRange == fcall = NoCall /\ DoParseRange

\* Ranges over texts, zones and dates of the clock.
SpecRange == Init /\ [][NextRange]_vars

\* The zone has one offset at every instant.
HasNoDstChange(tz) == tz.before = tz.after

\* The date COUNT units before today, counted as parse_relative_date counts,
\* is a date of NaiveDate.
IsRepresentable(count, unit, today) ==
    LET back == CountBack(count)
        c == civil_from_days(today)
    IN  CASE unit = "d" -> back <= today - MinDate
          [] unit = "w" -> back <= (MondayOf(today) - MinDate) \div 7
          [] unit = "m" -> back <= (c.year - MinYear) * 12 + c.month - 1
          [] unit = "y" -> back <= c.year - MinYear

\* C30: in a zone without DST changes and with dates that NaiveDate
\* represents, parse_relative_date("COUNT UNIT") returns an instant at or
\* before the local midnight that starts today, hence strictly before what
\* "now" returns, and for one unit a larger COUNT does not return a later
\* instant.
C30_RangeIsNeverInverted ==
    (/\ fcall.fn = "range"
     /\ HasNoDstChange(fcall.timezone)
     /\ IsRepresentable(fcall.more, fcall.unit, fcall.today)
     /\ fcall.today < MaxDate) =>
        /\ ~fcall.near.panic /\ ~fcall.far.panic /\ ~fcall.until.panic
        /\ fcall.near.value # None
        /\ fcall.far.value # None
        /\ fcall.until.value # None
        /\ Unwrap(fcall.far.value) <= Unwrap(fcall.near.value)
        /\ LocalMidnight(fcall.timezone, fcall.today) # None
        /\ Unwrap(fcall.near.value) <= Unwrap(LocalMidnight(fcall.timezone, fcall.today))
        /\ Unwrap(fcall.near.value) < Unwrap(fcall.until.value)

\* On Friday 2024-04-05, UTC: "2 w" is Monday 2024-03-25, "40 w" is earlier,
\* and "now" is Saturday's midnight.
C30_Witness ==
    /\ fcall.fn = "range"
    /\ fcall.timezone = Utc
    /\ fcall.today = days_from_civil(2024, 4, 5)
    /\ fcall.unit = "w"
    /\ fcall.fewer = 2
    /\ fcall.more = 40
    /\ fcall.near.value = Some(days_from_civil(2024, 3, 25) * SecondsPerDay)
    /\ fcall.far.value = Some((days_from_civil(2024, 3, 25) - 7 * 38) * SecondsPerDay)
    /\ fcall.until.value = Some(days_from_civil(2024, 4, 6) * SecondsPerDay)

====
